---- MODULE Spec2Model ----
(***************************************************************************)
(* Sure Petcare "pet may use feeder" switch platform (switch.py).          *)
(*                                                                         *)
(*   data      the coordinator cache: a mapping entity id -> snapshot.     *)
(*             A key can be absent (subscripting raises KeyError) or map   *)
(*             to a falsy value (None).                                    *)
(*   cloud     the vendor side: the tags attached to each feeder.          *)
(*   entities  the toggles handed to async_add_entities.                   *)
(*   cmd       the running turn_on / turn_off coroutines, one per slot of  *)
(*             the platform's PARALLEL_UPDATES semaphore.                  *)
(*   lastRead  the last is_on value the host read from a toggle.           *)
(***************************************************************************)
EXTENDS Integers, Sequences, FiniteSets, TLC

VARIABLES data, cloud, entities, setupDone, cmd, lastRead

vars == <<data, cloud, entities, setupDone, cmd, lastRead>>

(***************************************************************************)
(* Strings are sequences of one-character strings, so that replace(),      *)
(* title() and the f-strings are computed and not assumed.                 *)
(***************************************************************************)
LowerCase == <<"a","b","c","d","e","f","g","h","i","j","k","l","m",
               "n","o","p","q","r","s","t","u","v","w","x","y","z">>

UpperCase == <<"A","B","C","D","E","F","G","H","I","J","K","L","M",
               "N","O","P","Q","R","S","T","U","V","W","X","Y","Z">>

IsLower(c) == \E i \in 1..Len(LowerCase) : LowerCase[i] = c

IsUpper(c) == \E i \in 1..Len(UpperCase) : UpperCase[i] = c

IsCased(c) == IsLower(c) \/ IsUpper(c)

ToUpper(c) ==
    IF IsLower(c)
    THEN UpperCase[CHOOSE i \in 1..Len(LowerCase) : LowerCase[i] = c]
    ELSE c

ToLower(c) ==
    IF IsUpper(c)
    THEN LowerCase[CHOOSE i \in 1..Len(UpperCase) : UpperCase[i] = c]
    ELSE c

\* str.replace(old, new) for one-character old and new
StrReplace(s, old, new) == [i \in 1..Len(s) |-> IF s[i] = old THEN new ELSE s[i]]

\* str.title(): a cased character is upper-cased after an uncased one (or at
\* the start) and lower-cased after a cased one
StrTitle(s) ==
    [i \in 1..Len(s) |->
        IF i > 1 /\ IsCased(s[i - 1]) THEN ToLower(s[i]) ELSE ToUpper(s[i])]

Digits == <<"0","1","2","3","4","5","6","7","8","9">>

\* str(n) of a non-negative int, as an f-string renders it
RECURSIVE IntToStr(_)
IntToStr(n) ==
    IF n < 10 THEN <<Digits[n + 1]>>
    ELSE IntToStr(n \div 10) \o <<Digits[(n % 10) + 1]>>

(***************************************************************************)
(* Entities of the cache.                                                  *)
(***************************************************************************)
PET == <<"P","E","T">>

FEEDER == <<"F","E","E","D","E","R">>

CAT_FLAP == <<"C","A","T","_","F","L","A","P">>

None == [none |-> TRUE]

\* Python truthiness of a cache value
Truthy(x) == x # None

PetIds == {1, 12}

FeederIds == {3, 23}

FlapIds == {5}

Ids == PetIds \cup FeederIds \cup FlapIds

Households == {1, 11}

Tom == <<"T","o","m">>

Mia == <<"M","i","a">>

Kitchen == <<"K","i","t","c","h","e","n">>

Hall == <<"H","a","l","l">>

Door == <<"D","o","o","r">>

\* the tag each pet wears
TagOf(id) == IF id = 1 THEN 7 ELSE 9

\* the tags of pets outside this account
ForeignTags == {3}

PetTags == {TagOf(p) : p \in PetIds}

Pet(id, hh, name) ==
    [type |-> PET, id |-> id, household_id |-> hh, name |-> name,
     tag_id |-> TagOf(id), tags |-> {}]

Feeder(id, hh, name, tags) ==
    [type |-> FEEDER, id |-> id, household_id |-> hh, name |-> name,
     tag_id |-> 0, tags |-> tags]

Flap(id, hh, name) ==
    [type |-> CAT_FLAP, id |-> id, household_id |-> hh, name |-> name,
     tag_id |-> 0, tags |-> {}]

\* the ids of a feeder's tags: {t.id for t in feeder.tags.values()}
TagIds(feeder) == feeder.tags

\* dict.values() in insertion order (the coordinator inserts by ascending id)
RECURSIVE SortedIds(_)
SortedIds(S) ==
    IF S = {} THEN <<>>
    ELSE LET m == CHOOSE x \in S : \A y \in S : x <= y
         IN <<m>> \o SortedIds(S \ {m})

Values(d) == [i \in 1..Cardinality(DOMAIN d) |-> d[SortedIds(DOMAIN d)[i]]]

RECURSIVE SelectType(_, _)
SelectType(es, type) ==
    IF es = <<>> THEN <<>>
    ELSE (IF Head(es).type = type THEN <<Head(es)>> ELSE <<>>)
         \o SelectType(Tail(es), type)

(***************************************************************************)
(* SurePetcareSwitch.__init__ and PetFeederAccess.__init__                 *)
(***************************************************************************)
TypeName(entity) == StrTitle(StrReplace(entity.type, "_", " "))

Unnamed == <<"U","n","n","a","m","e","d">>

\* a name that is None (a name is otherwise a sequence of characters)
NoName == <<"None">>

NameIsSet(name) == name # <<>> /\ name # NoName

RawEntityName(entity) == entity.name

EntityName(entity) ==
    IF NameIsSet(entity.name) THEN entity.name
    ELSE Unnamed \o <<" ">> \o TypeName(entity)

BaseAttrName(entity) == TypeName(entity) \o <<" ">> \o EntityName(entity)

AccessSuffix == <<" ","A","c","c","e","s","s">>

AttrName(pet, feeder) ==
    BaseAttrName(pet) \o <<" ">> \o feeder.name \o AccessSuffix

UniqueIdSuffix == <<"-","f","e","e","d","e","r","-","a","c","c","e","s","s">>

BaseUniqueId(pet, feeder) ==
    IntToStr(pet.household_id) \o <<"-">> \o IntToStr(pet.id)

AttrUniqueId(pet, feeder) ==
    IntToStr(pet.household_id) \o <<"-">> \o IntToStr(pet.id) \o <<"-">>
    \o IntToStr(feeder.id) \o UniqueIdSuffix

PetFeederAccess(d, pet_id, feeder_id) ==
    [id |-> pet_id, feeder_id |-> feeder_id,
     name |-> AttrName(d[pet_id], d[feeder_id]),
     unique_id |-> AttrUniqueId(d[pet_id], d[feeder_id])]

(***************************************************************************)
(* async_setup_entry                                                       *)
(***************************************************************************)
AnyHousehold(p, f) == TRUE

SameHousehold(p, f) == p.household_id = f.household_id

RECURSIVE ForFeeders(_, _, _)
ForFeeders(d, p, fs) ==
    IF fs = <<>> THEN <<>>
    ELSE (IF SameHousehold(p, Head(fs))
          THEN <<PetFeederAccess(d, p.id, Head(fs).id)>>
          ELSE <<>>)
         \o ForFeeders(d, p, Tail(fs))

RECURSIVE ForPets(_, _, _)
ForPets(d, ps, fs) ==
    IF ps = <<>> THEN <<>>
    ELSE ForFeeders(d, Head(ps), fs) \o ForPets(d, Tail(ps), fs)

SetupPets(d) == SelectType(Values(d), PET)

SetupFeeders(d) == SelectType(Values(d), FEEDER)

SetupEntities(d) == ForPets(d, SetupPets(d), SetupFeeders(d))

AsyncSetupEntry ==
    /\ ~setupDone
    /\ entities' = SetupEntities(data)
    /\ setupDone' = TRUE
    /\ UNCHANGED <<data, cloud, cmd, lastRead>>

(***************************************************************************)
(* PetFeederAccess.is_on                                                   *)
(*   "on" / "off" are True / False, "unknown" is None, "KeyError" is the   *)
(*   exception a subscript of the cache raises for a key it does not hold. *)
(***************************************************************************)
PetIdIsMember(pet, feeder) == pet.id \in TagIds(feeder)

TagIsMember(pet, feeder) == pet.tag_id \in TagIds(feeder)

IsOn(d, toggle) ==
    IF toggle.id \notin DOMAIN d THEN "KeyError"
    ELSE IF ~Truthy(d[toggle.id]) THEN "unknown"
    ELSE IF toggle.feeder_id \notin DOMAIN d THEN "KeyError"
    ELSE IF ~Truthy(d[toggle.feeder_id]) THEN "unknown"
    ELSE IF TagIsMember(d[toggle.id], d[toggle.feeder_id]) THEN "on"
    ELSE "off"

\* the host reads the state of a toggle
ReadIsOn(t) ==
    /\ setupDone
    /\ t \in 1..Len(entities)
    /\ lastRead' = [toggle |-> t, value |-> IsOn(data, entities[t])]
    /\ UNCHANGED <<data, cloud, entities, setupDone, cmd>>

(***************************************************************************)
(* SurePetcareSwitch.device_info                                           *)
(*   Values of raw_data() are tagged: PyNone, PyStr(characters),           *)
(*   PyDict(function from keys to values). An entity of DeviceSpec carries *)
(*   its raw_data() in the field raw.                                      *)
(***************************************************************************)
PyNone == [py |-> "none"]

PyStr(chars) == [py |-> "str", val |-> chars]

PyDict(items) == [py |-> "dict", items |-> items]

EmptyDict == PyDict([k \in {} |-> PyNone])

IsDict(v) == v.py = "dict"

PyTruthy(v) ==
    IF v.py = "none" THEN FALSE
    ELSE IF v.py = "str" THEN v.val # <<>>
    ELSE DOMAIN v.items # {}

\* d.get(key, default) of a dict d
PyGet(d, key, default) == IF key \in DOMAIN d.items THEN d.items[key] ELSE default

\* str.capitalize()
StrCapitalize(s) == [i \in 1..Len(s) |-> IF i = 1 THEN ToUpper(s[i]) ELSE ToLower(s[i])]

SetItem(d, key, v) == [k \in DOMAIN d \cup {key} |-> IF k = key THEN v ELSE d[k]]

\* device = {}
NoDevice == [k \in {} |-> <<>>]

\* DOMAIN and SURE_MANUFACTURER of .const, as opaque values
DOMAIN_CONST == "DOMAIN"

SURE_MANUFACTURER == "SURE_MANUFACTURER"

\* self._state = self._surepy_entity.raw_data().get("status", {})
StateOf(entity) == PyGet(entity.raw, "status", EmptyDict)

Parenthesised(model, chars) == model \o <<" ", "(">> \o chars \o <<")">>

DeviceModel(entity) ==
    LET model == TypeName(entity)
        serial == PyGet(entity.raw, "serial_number", PyNone)
        mac_address == PyGet(entity.raw, "mac_address", PyNone)
    IN IF PyTruthy(serial) THEN Parenthesised(model, serial.val)
       ELSE IF PyTruthy(mac_address) THEN Parenthesised(model, mac_address.val)
       ELSE IF entity.tag_id # 0 THEN Parenthesised(model, IntToStr(entity.tag_id))
       ELSE model

\* the outcome of the try block: the exception that left it ("none" when it
\* ran to its end) and the value of device at that point
Left(exc, device) == [exc |-> exc, device |-> device]

\* version.get('version', version)['firmware']
SubFirmware(version) ==
    IF ~IsDict(version) THEN Left("AttributeError", NoDevice)
    ELSE LET inner == PyGet(version, "version", version)
         IN IF ~IsDict(inner) THEN Left("TypeError", NoDevice)
            ELSE IF "firmware" \notin DOMAIN inner.items THEN Left("KeyError", NoDevice)
            ELSE Left("none", inner.items["firmware"].val)

LcdRfVersion(device, lcd_version, rf_version) ==
    LET lcd == SubFirmware(lcd_version)
        rf == SubFirmware(rf_version)
    IN IF lcd.exc # "none" THEN Left(lcd.exc, device)
       ELSE IF rf.exc # "none" THEN Left(rf.exc, device)
       ELSE Left("none",
                 SetItem(device, "sw_version",
                         <<"l","c","d",":"," ">> \o lcd.device
                         \o <<" ","|"," ","f","w",":"," ">> \o rf.device))

\* if self._state: ... (lines 122-134)
FirmwareVersion(device, state) ==
    LET versions == PyGet(state, "version", EmptyDict)
    IN IF ~IsDict(versions) THEN Left("AttributeError", device)
       ELSE LET dev == PyGet(versions, "device", EmptyDict)
            IN IF ~IsDict(dev) THEN Left("AttributeError", device)
               ELSE LET dev_fw_version == PyGet(dev, "firmware", PyNone)
                        device1 == IF PyTruthy(dev_fw_version)
                                   THEN SetItem(device, "sw_version", dev_fw_version.val)
                                   ELSE device
                        lcd_version == PyGet(versions, "lcd", EmptyDict)
                        rf_version == PyGet(versions, "rf", EmptyDict)
                    IN IF PyTruthy(lcd_version) /\ PyTruthy(rf_version)
                       THEN LcdRfVersion(device1, lcd_version, rf_version)
                       ELSE Left("none", device1)

\* the try block (lines 105-134)
DeviceInfoTry(entity, id) ==
    IF entity.name = NoName THEN Left("AttributeError", NoDevice)
    ELSE LET device == [identifiers |-> <<DOMAIN_CONST, id>>,
                        name |-> StrCapitalize(entity.name),
                        manufacturer |-> SURE_MANUFACTURER,
                        model |-> DeviceModel(entity)]
         IN IF PyTruthy(StateOf(entity))
            THEN FirmwareVersion(device, StateOf(entity))
            ELSE Left("none", device)

ExceptNothing(left) == [left EXCEPT !.caught = FALSE]

\* except AttributeError: pass
ExceptAttributeError(left) ==
    IF left.exc = "AttributeError"
    THEN [left EXCEPT !.exc = "none", !.caught = TRUE]
    ELSE left

\* device_info: exc is the exception that leaves the property ("none" when it
\* returns), device what it returns, caught whether the handler ran
DeviceInfo(entity, id) ==
    ExceptAttributeError(DeviceInfoTry(entity, id) @@ [caught |-> FALSE])

\* the host reads device_info of a toggle
ReadDeviceInfo(t) ==
    /\ setupDone
    /\ t \in 1..Len(entities)
    /\ lastRead' = [toggle |-> t,
                    value |-> DeviceInfo(data[entities[t].id], entities[t].id)]
    /\ UNCHANGED <<data, cloud, entities, setupDone, cmd>>

(***************************************************************************)
(* The vendor side and the coordinator.                                    *)
(***************************************************************************)
\* how many times one command may go round its confirm loop
MaxPolls == 2

Attach(c, device_id, tag_id) ==
    IF device_id \in DOMAIN c
    THEN [c EXCEPT ![device_id].tags = @ \cup {tag_id}]
    ELSE c

Detach(c, device_id, tag_id) ==
    IF device_id \in DOMAIN c
    THEN [c EXCEPT ![device_id].tags = @ \ {tag_id}]
    ELSE c

ApplyCall(c, call) ==
    IF call.method = "PUT" THEN Attach(c, call.device_id, call.tag_id)
    ELSE Detach(c, call.device_id, call.tag_id)

\* the ways a refresh comes back: whole, or short of one pet or feeder, whose
\* key is left out of the mapping or mapped to None. (QuerySpec reads is_on
\* over caches short of several entries at once.)
MissingPatterns(c) ==
    LET short == DOMAIN c \cap (PetIds \cup FeederIds)
    IN {[absent |-> {}, none |-> {}]}
       \cup {[absent |-> {id}, none |-> {}] : id \in short}
       \cup {[absent |-> {}, none |-> {id}] : id \in short}

Degrade(c, m) ==
    [id \in DOMAIN c \ m.absent |-> IF id \in m.none THEN None ELSE c[id]]

\* what the cache may hold after a refresh: the old data (the refresh failed
\* or was debounced) or a snapshot of the vendor side
RefreshOutcomes(d, c) == {d} \cup {Degrade(c, m) : m \in MissingPatterns(c)}

\* the coordinator's own polling cycle
CoordinatorUpdate ==
    /\ setupDone
    /\ data' \in RefreshOutcomes(data, cloud)
    /\ UNCHANGED <<cloud, entities, setupDone, cmd, lastRead>>

(***************************************************************************)
(* async_turn_on / async_turn_off                                          *)
(***************************************************************************)
PARALLEL_UPDATES == 2

Slots == 1..PARALLEL_UPDATES

\* a command takes the first free slot of the semaphore
FirstFree(s) == cmd[s].pc = "idle" /\ \A r \in Slots : r < s => cmd[r].pc # "idle"

Idle ==
    [pc |-> "idle", kind |-> "none", toggle |-> 0, calls |-> <<>>,
     resp |-> "none", waits |-> 0, refreshes |-> 0, q |-> "none",
     err |-> "none"]

AddTagCallAsDelete(device_id, tag_id) ==
    [method |-> "DELETE", device_id |-> device_id, tag_id |-> tag_id]

RemoveTagCallAsPut(device_id, tag_id) ==
    [method |-> "PUT", device_id |-> device_id, tag_id |-> tag_id]

\* _add_tag_to_device / _remove_tag_from_device: the request they send
AddTagCall(device_id, tag_id) ==
    [method |-> "PUT", device_id |-> device_id, tag_id |-> tag_id]

RemoveTagCall(device_id, tag_id) ==
    [method |-> "DELETE", device_id |-> device_id, tag_id |-> tag_id]

Raise(c, err) == [c EXCEPT !.pc = "error", !.err = err]

BeginUnchecked(kind, t, d) ==
    [Idle EXCEPT
       !.kind = kind,
       !.toggle = t,
       !.pc = "call",
       !.calls = <<IF kind = "on"
                   THEN AddTagCall(entities[t].feeder_id, TagOf(entities[t].id))
                   ELSE RemoveTagCall(entities[t].feeder_id, TagOf(entities[t].id))>>]

\* pet = self._coordinator.data[self._id]; then the call with pet.tag_id
Begin(kind, t, d) ==
    LET toggle == entities[t]
        c0 == [Idle EXCEPT !.kind = kind, !.toggle = t]
    IN IF toggle.id \notin DOMAIN d THEN Raise(c0, "KeyError")
       ELSE IF ~Truthy(d[toggle.id]) THEN Raise(c0, "AttributeError")
       ELSE [c0 EXCEPT
               !.pc = "call",
               !.calls = <<IF kind = "on"
                           THEN AddTagCall(toggle.feeder_id, d[toggle.id].tag_id)
                           ELSE RemoveTagCall(toggle.feeder_id, d[toggle.id].tag_id)>>]

TurnOnStart(s, t) ==
    /\ setupDone
    /\ FirstFree(s)
    /\ t \in 1..Len(entities)
    /\ cmd' = [cmd EXCEPT ![s] = Begin("on", t, data)]
    /\ UNCHANGED <<data, cloud, entities, setupDone, lastRead>>

TurnOffStart(s, t) ==
    /\ setupDone
    /\ FirstFree(s)
    /\ t \in 1..Len(entities)
    /\ cmd' = [cmd EXCEPT ![s] = Begin("off", t, data)]
    /\ UNCHANGED <<data, cloud, entities, setupDone, lastRead>>

\* the call returned (with or without a payload): on to the loop condition
AfterCall(c) == [c EXCEPT !.pc = "check"]

AfterCallErrorSwallowed(c) == [c EXCEPT !.pc = "check"]

\* the call raised: nothing catches it
AfterCallError(c) == Raise(c, "CallError")

\* await spc.surepy.sac.call(...): the vendor applies the write and answers,
\* answers without having applied it, or the call raises; resp keeps which
Outcomes == {"applied", "dropped", "raised"}

Answer(s, outcome) ==
    /\ cloud' = IF outcome = "applied"
                THEN ApplyCall(cloud, cmd[s].calls[Len(cmd[s].calls)])
                ELSE cloud
    /\ cmd' = [cmd EXCEPT
                 ![s] = IF outcome = "raised"
                        THEN AfterCallError([cmd[s] EXCEPT !.resp = "raised"])
                        ELSE AfterCall([cmd[s] EXCEPT !.resp = "returned"])]

RemoteCall(s) ==
    /\ cmd[s].pc = "call"
    /\ \E outcome \in Outcomes : Answer(s, outcome)
    /\ UNCHANGED <<data, entities, setupDone, lastRead>>

TurnOnNeverConfirms(q) == TRUE

\* while not self.is_on:   (not None is True)
TurnOnContinues(q) == q # "on"

\* while self.is_on:       (None is falsy)
TurnOffContinues(q) == q = "on"

Continues(kind, q) ==
    IF kind = "on" THEN TurnOnContinues(q) ELSE TurnOffContinues(q)

AfterCheckRefreshing(c, q) ==
    [c EXCEPT !.refreshes = @ + 1,
              !.pc = IF Continues(c.kind, q) THEN "sleep" ELSE "done"]

\* q keeps the is_on value on which the loop was left
AfterCheck(c, q) ==
    IF q = "KeyError" THEN Raise(c, "KeyError")
    ELSE IF Continues(c.kind, q) THEN [c EXCEPT !.pc = "sleep"]
    ELSE [c EXCEPT !.q = q, !.pc = "done"]

LoopCheck(s) ==
    /\ cmd[s].pc = "check"
    /\ cmd' = [cmd EXCEPT
                 ![s] = AfterCheck(cmd[s], IsOn(data, entities[cmd[s].toggle]))]
    /\ UNCHANGED <<data, cloud, entities, setupDone, lastRead>>

AfterSleepSkipsRefresh(c) == [c EXCEPT !.waits = @ + 1, !.pc = "check"]

\* await asyncio.sleep(2)
AfterSleep(c) == [c EXCEPT !.waits = @ + 1, !.pc = "refresh"]

Sleep(s) ==
    /\ cmd[s].pc = "sleep"
    /\ cmd[s].waits < MaxPolls
    /\ cmd' = [cmd EXCEPT ![s] = AfterSleep(cmd[s])]
    /\ UNCHANGED <<data, cloud, entities, setupDone, lastRead>>

AfterRefreshResend(c) ==
    [c EXCEPT !.refreshes = @ + 1, !.pc = "check", !.calls = @ \o @]

\* await self.coordinator.async_request_refresh()
AfterRefresh(c) == [c EXCEPT !.refreshes = @ + 1, !.pc = "check"]

RequestRefresh(s) ==
    /\ cmd[s].pc = "refresh"
    /\ data' \in RefreshOutcomes(data, cloud)
    /\ cmd' = [cmd EXCEPT ![s] = AfterRefresh(cmd[s])]
    /\ UNCHANGED <<cloud, entities, setupDone, lastRead>>

\* the coroutine has returned or raised; the semaphore slot is free again
Return(s) ==
    /\ cmd[s].pc \in {"done", "error"}
    /\ cmd' = [cmd EXCEPT ![s] = Idle]
    /\ UNCHANGED <<data, cloud, entities, setupDone, lastRead>>

(***************************************************************************)
(* Specifications.                                                         *)
(***************************************************************************)
NoRead == [toggle |-> 0, value |-> "none"]

\* Spec: one account after the coordinator's first refresh; feeder 3 holds
\* tags {3, 9}, so pet 12 (tag 9) has access and pet 1 (tag 7) has not
Account ==
    [id \in Ids \ {23} |->
        IF id = 1 THEN Pet(1, 1, Tom)
        ELSE IF id = 12 THEN Pet(12, 1, <<>>)
        ELSE IF id = 3 THEN Feeder(3, 1, Kitchen, ForeignTags \cup {TagOf(12)})
        ELSE Flap(5, 1, Door)]

Init ==
    /\ cloud = Account
    /\ data = Account
    /\ entities = <<>>
    /\ setupDone = FALSE
    /\ cmd = [s \in Slots |-> Idle]
    /\ lastRead = NoRead

Next ==
    \/ AsyncSetupEntry
    \/ CoordinatorUpdate
    \/ \E s \in Slots, t \in 1..Len(entities) : TurnOnStart(s, t)
    \/ \E s \in Slots, t \in 1..Len(entities) : TurnOffStart(s, t)
    \/ \E s \in Slots : RemoteCall(s)
    \/ \E s \in Slots : LoopCheck(s)
    \/ \E s \in Slots : Sleep(s)
    \/ \E s \in Slots : RequestRefresh(s)
    \/ \E s \in Slots : Return(s)

Spec == Init /\ [][Next]_vars

\* LiveSpec: the commands of Spec on an account of one pair, with the event
\* loop running every coroutine that can run: a pending request is answered,
\* a sleep ends, a refresh request returns and the loop condition is evaluated
Fairness ==
    \A s \in Slots :
        /\ WF_vars(RemoteCall(s))
        /\ WF_vars(LoopCheck(s))
        /\ WF_vars(Sleep(s))
        /\ WF_vars(RequestRefresh(s))

\* an account of one pet and one feeder, the pet's tag on the feeder
LiveAccount ==
    [id \in {12, 3} |->
        IF id = 12 THEN Pet(12, 1, Mia)
        ELSE Feeder(3, 1, Kitchen, ForeignTags \cup {TagOf(12)})]

LiveInit ==
    /\ cloud = LiveAccount
    /\ data = LiveAccount
    /\ entities = <<>>
    /\ setupDone = FALSE
    /\ cmd = [s \in Slots |-> Idle]
    /\ lastRead = NoRead

LiveSpec == LiveInit /\ [][Next]_vars /\ Fairness

\* RaceSpec: Spec with the order of the vendor's writes kept. lastRead names
\* the slot of the command whose write the vendor applied last, as long as
\* that command's request is the latest one of its slot to be answered.
LastApplied(s) == [toggle |-> cmd[s].toggle, value |-> cmd[s].kind, slot |-> s]

RemoteCallInOrder(s) ==
    /\ cmd[s].pc = "call"
    /\ \E outcome \in Outcomes :
         /\ Answer(s, outcome)
         /\ lastRead' = IF outcome = "applied" THEN LastApplied(s)
                        ELSE IF lastRead.toggle # 0 /\ lastRead.slot = s THEN NoRead
                        ELSE lastRead
    /\ UNCHANGED <<data, entities, setupDone>>

RaceNext ==
    \/ AsyncSetupEntry
    \/ CoordinatorUpdate
    \/ \E s \in Slots, t \in 1..Len(entities) : TurnOnStart(s, t)
    \/ \E s \in Slots, t \in 1..Len(entities) : TurnOffStart(s, t)
    \/ \E s \in Slots : RemoteCallInOrder(s)
    \/ \E s \in Slots : LoopCheck(s)
    \/ \E s \in Slots : Sleep(s)
    \/ \E s \in Slots : RequestRefresh(s)
    \/ \E s \in Slots : Return(s)

RaceSpec == Init /\ [][RaceNext]_vars

\* SetupSpec: async_setup_entry over the caches of a bounded set of accounts
SetupAccounts ==
    {[id \in present |->
        IF id = 1 THEN Pet(1, h[1], n1)
        ELSE IF id = 12 THEN Pet(12, h[12], n2)
        ELSE IF id = 3 THEN Feeder(3, h[3], Kitchen, ForeignTags)
        ELSE IF id = 23 THEN Feeder(23, h[23], Hall, {})
        ELSE Flap(5, 1, Door)] :
      h \in [PetIds \cup FeederIds -> Households],
      n1 \in {<<>>, Tom}, n2 \in {<<>>, Mia},
      present \in {Ids, Ids \ {12}, Ids \ {23}}}

SetupInit ==
    /\ cloud \in SetupAccounts
    /\ data = cloud
    /\ entities = <<>>
    /\ setupDone = FALSE
    /\ cmd = [s \in Slots |-> Idle]
    /\ lastRead = NoRead

SetupNext == AsyncSetupEntry

SetupSpec == SetupInit /\ [][SetupNext]_vars

\* QuerySpec: is_on over the caches a toggle can meet
QueryCaches ==
    {[id \in DOMAIN Account \ absent |->
        IF id \in none THEN None
        ELSE IF id = 3 THEN [Account[3] EXCEPT !.tags = tags]
        ELSE Account[id]] :
      absent \in SUBSET {1, 12, 3}, none \in SUBSET {1, 12, 3},
      tags \in SUBSET (ForeignTags \cup PetTags)}

QueryInit ==
    /\ cloud = Account
    /\ data \in QueryCaches
    /\ entities = SetupEntities(Account)
    /\ setupDone = TRUE
    /\ cmd = [s \in Slots |-> Idle]
    /\ lastRead = NoRead

QueryNext == \E t \in 1..Len(entities) : ReadIsOn(t)

QuerySpec == QueryInit /\ [][QueryNext]_vars

\* DeviceSpec: device_info over the raw data a pet can carry
Str12 == PyStr(<<"1",".","2">>)

StrL == PyStr(<<"L","7">>)

StrR == PyStr(<<"R","9">>)

Fw(v) == PyDict([k \in {"firmware"} |-> v])

Versioned(v) == PyDict([k \in {"version"} |-> v])

VersionValues ==
    {PyNone,
     PyStr(<<"x">>),
     EmptyDict,
     PyDict([k \in {"device"} |-> Fw(Str12)]),
     PyDict([k \in {"device"} |-> PyNone]),
     PyDict([k \in {"device"} |-> EmptyDict]),
     PyDict([k \in {"lcd"} |-> Fw(StrL)]),
     PyDict([k \in {"lcd", "rf"} |-> IF k = "lcd" THEN Fw(StrL) ELSE Fw(StrR)]),
     PyDict([k \in {"lcd", "rf"} |->
               IF k = "lcd" THEN Versioned(Fw(StrL)) ELSE Versioned(Fw(StrR))]),
     PyDict([k \in {"device", "lcd", "rf"} |->
               IF k = "device" THEN Fw(Str12)
               ELSE IF k = "lcd" THEN Fw(StrL) ELSE Fw(StrR)]),
     PyDict([k \in {"device", "lcd", "rf"} |->
               IF k = "device" THEN Fw(Str12)
               ELSE IF k = "lcd" THEN PyStr(<<"x">>) ELSE Fw(StrR)]),
     PyDict([k \in {"lcd", "rf"} |->
               IF k = "lcd" THEN Fw(StrL) ELSE PyStr(<<"x">>)]),
     PyDict([k \in {"lcd", "rf"} |->
               IF k = "lcd" THEN Versioned(EmptyDict) ELSE Fw(StrR)]),
     PyDict([k \in {"lcd", "rf"} |->
               IF k = "lcd" THEN Versioned(PyNone) ELSE Fw(StrR)])}

StatusValues ==
    {PyDict([k \in {"online"} |-> PyStr(<<"y">>)])}
    \cup {PyDict([k \in {"online", "version"} |->
                    IF k = "online" THEN PyStr(<<"y">>) ELSE v]) : v \in VersionValues}

RawValues ==
    {PyDict([k \in keys |->
               IF k = "status" THEN status
               ELSE IF k = "serial_number" THEN PyStr(<<"S","1">>)
               ELSE PyStr(<<"M","1">>)]) :
       keys \in SUBSET {"status", "serial_number", "mac_address"},
       status \in StatusValues}

DeviceAccounts ==
    {[Account EXCEPT ![1] = Pet(1, 1, name) @@ [raw |-> raw],
                     ![12] = Pet(12, 1, Mia) @@ [raw |-> EmptyDict]] :
       name \in {NoName, <<>>, <<"t","O","m">>}, raw \in RawValues}

DeviceInit ==
    /\ cloud \in DeviceAccounts
    /\ data = cloud
    /\ entities = SetupEntities(data)
    /\ setupDone = TRUE
    /\ cmd = [s \in Slots |-> Idle]
    /\ lastRead = NoRead

DeviceNext == \E t \in 1..Len(entities) : ReadDeviceInfo(t)

DeviceSpec == DeviceInit /\ [][DeviceNext]_vars

(***************************************************************************)
(* Properties.                                                             *)
(***************************************************************************)
PetsIn(d) == {id \in DOMAIN d : d[id].type = PET}

FeedersIn(d) == {id \in DOMAIN d : d[id].type = FEEDER}

TogglesFor(p, f) ==
    {i \in 1..Len(entities) : entities[i].id = p /\ entities[i].feeder_id = f}

\* C1: async_setup_entry adds exactly one toggle for every (pet, feeder) pair
\* of the cache with equal household ids, none for a pair whose household ids
\* differ, and nothing else.
C1_OneTogglePerHouseholdPair ==
    setupDone =>
        /\ \A p \in PetsIn(data), f \in FeedersIn(data) :
             Cardinality(TogglesFor(p, f)) =
                 IF data[p].household_id = data[f].household_id THEN 1 ELSE 0
        /\ \A i \in 1..Len(entities) :
             entities[i].id \in PetsIn(data) /\ entities[i].feeder_id \in FeedersIn(data)

C1_Witness ==
    /\ setupDone
    /\ \E p \in PetsIn(data), f \in FeedersIn(data) :
         data[p].household_id # data[f].household_id /\ TogglesFor(p, f) = {}
    /\ \E p \in PetsIn(data), f \in FeedersIn(data) :
         data[p].household_id = data[f].household_id /\ TogglesFor(p, f) # {}

ReadToggle == entities[lastRead.toggle]

HasSnapshot(d, id) == id \in DOMAIN d /\ d[id] # None

\* C2: when the pet's and the feeder's snapshots are both in the cache, is_on
\* is on if the pet's tag id is the id of one of the feeder's tags, and off
\* otherwise.
C2_OnIffTagIsMember ==
    (/\ lastRead.toggle # 0
     /\ HasSnapshot(data, ReadToggle.id)
     /\ HasSnapshot(data, ReadToggle.feeder_id))
    => lastRead.value =
         IF \E tag \in data[ReadToggle.feeder_id].tags :
              tag = data[ReadToggle.id].tag_id
         THEN "on" ELSE "off"

C2_Witness ==
    /\ lastRead.toggle # 0
    /\ HasSnapshot(data, ReadToggle.id)
    /\ HasSnapshot(data, ReadToggle.feeder_id)
    /\ lastRead.value = "on"
    /\ data[ReadToggle.feeder_id].tags # {data[ReadToggle.id].tag_id}

\* C3: whenever the pet's entry or the feeder's entry is missing from the
\* cache, is_on returns unknown (None) and raises nothing.
C3_MissingReadsUnknown ==
    (/\ lastRead.toggle # 0
     /\ \/ ~HasSnapshot(data, ReadToggle.id)
        \/ ~HasSnapshot(data, ReadToggle.feeder_id))
    => lastRead.value = "unknown"

\* C10: the display name is the entity type, the pet's name or, for a pet
\* without a name, a placeholder made from the entity type, and the feeder's
\* name, followed by " Access": "Pet Tom Kitchen Access" and
\* "Pet Unnamed Pet Kitchen Access".
C10_DisplayName ==
    setupDone =>
        \A i \in 1..Len(entities) :
            LET pet == data[entities[i].id]
                feeder == data[entities[i].feeder_id]
                shown == IF pet.name = <<>>
                         THEN <<"U","n","n","a","m","e","d"," ","P","e","t">>
                         ELSE pet.name
            IN /\ shown # <<>>
               /\ entities[i].name =
                    <<"P","e","t"," ">> \o shown \o <<" ">> \o feeder.name
                    \o <<" ","A","c","c","e","s","s">>

C10_Witness ==
    /\ setupDone
    /\ \E i \in 1..Len(entities) :
         /\ data[entities[i].id].name = <<>>
         /\ data[entities[i].feeder_id].name = Kitchen
         /\ entities[i].name =
              <<"P","e","t"," ","U","n","n","a","m","e","d"," ","P","e","t"," ",
                "K","i","t","c","h","e","n"," ","A","c","c","e","s","s">>

CmdToggle(s) == entities[cmd[s].toggle]

\* the tag of the pet a command is about
CmdTag(s) == cloud[CmdToggle(s).id].tag_id

\* slot s took the step
Stepped(s) == cmd'[s] # cmd[s]

Attached(s) == CmdTag(s) \in cloud[CmdToggle(s).feeder_id].tags

\* C4: a turn_on sends one PUT for (the toggle's feeder id, the pet's tag id)
\* and no other request, however often it polls, and it leaves the loop at
\* the first loop check at which is_on is on, and at no other.
C4_OnePutThenConfirm ==
    /\ [](\A s \in Slots :
            cmd[s].kind = "on" =>
                /\ Len(cmd[s].calls) <= 1
                /\ cmd[s].pc \in {"call", "check", "sleep", "refresh", "done"}
                     => cmd[s].calls =
                          <<[method |-> "PUT",
                             device_id |-> CmdToggle(s).feeder_id,
                             tag_id |-> CmdTag(s)]>>)
    /\ [][\A s \in Slots :
            (cmd[s].kind = "on" /\ cmd[s].pc = "check" /\ Stepped(s)) =>
                (cmd'[s].pc = "done" <=> IsOn(data, CmdToggle(s)) = "on")]_vars

C4_Witness ==
    \E s \in Slots :
        /\ cmd[s].kind = "on"
        /\ cmd[s].pc = "done"
        /\ cmd[s].waits = 2
        /\ cmd[s].refreshes = 2
        /\ Len(cmd[s].calls) = 1
        /\ cmd[s].q = "on"
        /\ IsOn(data, CmdToggle(s)) = "on"

\* C5: once its request has returned, a turn_on either keeps polling or has
\* completed on is_on reporting on; while the cache does not show the tag on
\* the feeder it never ends.
C5_PollsUntilOn ==
    \A s \in Slots :
        (cmd[s].kind = "on" /\ cmd[s].resp = "returned") =>
            \/ cmd[s].pc \in {"check", "sleep", "refresh"}
            \/ cmd[s].pc = "done" /\ cmd[s].q = "on"

\* C6: a turn_off completes only on is_on reporting off; on on or unknown it
\* keeps polling.
C6_OffCompletesOnlyWhenOff ==
    \A s \in Slots :
        (cmd[s].kind = "off" /\ cmd[s].pc = "done") => cmd[s].q = "off"

\* C7: a turn_on of a toggle that is already on (the tag attached at the
\* vendor, is_on on) changes neither the feeder's tags nor the cache when
\* its request returns, and completes at its loop check with is_on on,
\* without an error, a wait or a refresh.
C7_EnableIdempotent ==
    [][\A s \in Slots :
        (/\ cmd[s].kind = "on"
         /\ Stepped(s)
         /\ Attached(s)
         /\ IsOn(data, CmdToggle(s)) = "on") =>
            /\ (cmd[s].pc = "call" /\ cmd'[s].resp = "returned") =>
                   /\ cloud' = cloud
                   /\ data' = data
                   /\ cmd'[s].pc = "check"
            /\ cmd[s].pc = "check" =>
                   /\ cloud' = cloud
                   /\ data' = data
                   /\ cmd'[s] = [cmd[s] EXCEPT !.pc = "done", !.q = "on"]
                   /\ IsOn(data', CmdToggle(s)) = "on"]_vars

C7_Witness ==
    \E s \in Slots :
        /\ cmd[s].kind = "on"
        /\ cmd[s].pc = "done"
        /\ cmd[s].waits = 0
        /\ cmd[s].refreshes = 0
        /\ cmd[s].q = "on"
        /\ cmd[s].resp = "returned"
        /\ cloud = Account
        /\ data = Account

\* C8: a turn_off of a toggle that is already off (the tag not attached at
\* the vendor, is_on off) changes neither the feeder's tags nor the cache when
\* its request returns, and completes at its loop check with is_on off,
\* without an error, a wait or a refresh.
C8_DisableIdempotent ==
    [][\A s \in Slots :
        (/\ cmd[s].kind = "off"
         /\ Stepped(s)
         /\ ~Attached(s)
         /\ IsOn(data, CmdToggle(s)) = "off") =>
            /\ (cmd[s].pc = "call" /\ cmd'[s].resp = "returned") =>
                   /\ cloud' = cloud
                   /\ data' = data
                   /\ cmd'[s].pc = "check"
            /\ cmd[s].pc = "check" =>
                   /\ cloud' = cloud
                   /\ data' = data
                   /\ cmd'[s] = [cmd[s] EXCEPT !.pc = "done", !.q = "off"]
                   /\ IsOn(data', CmdToggle(s)) = "off"]_vars

C8_Witness ==
    \E s \in Slots :
        /\ cmd[s].kind = "off"
        /\ cmd[s].pc = "done"
        /\ cmd[s].waits = 0
        /\ cmd[s].refreshes = 0
        /\ cmd[s].q = "off"
        /\ cmd[s].resp = "returned"
        /\ cloud = Account
        /\ data = Account

\* C9: a command whose attach or detach call raised has ended with that
\* error, having sent that one request and having waited and refreshed never.
C9_CallErrorPropagates ==
    \A s \in Slots :
        cmd[s].resp = "raised" =>
            /\ cmd[s].pc = "error"
            /\ cmd[s].err = "CallError"
            /\ cmd[s].waits = 0
            /\ cmd[s].refreshes = 0
            /\ Len(cmd[s].calls) = 1

C9_Witness ==
    \E s, r \in Slots :
        /\ cmd[s].kind = "on" /\ cmd[s].resp = "raised" /\ cmd[s].pc = "error"
        /\ cmd[r].kind = "off" /\ cmd[r].resp = "raised" /\ cmd[r].pc = "error"

\* C11: in a turn_on or turn_off the request has returned before any wait or
\* refresh; an iteration is a wait, then a refresh request, then the loop
\* check; the refresh requests are as many as the waits at every loop check
\* and at the end, and one fewer between a wait and its refresh request.
C11_WriteThenWaitRefreshCheck ==
    /\ [](\A s \in Slots :
            /\ (cmd[s].waits > 0 \/ cmd[s].refreshes > 0 \/
                cmd[s].pc \in {"sleep", "refresh"}) =>
                   cmd[s].resp = "returned" /\ Len(cmd[s].calls) = 1
            /\ cmd[s].pc = "refresh" => cmd[s].waits = cmd[s].refreshes + 1
            /\ cmd[s].pc # "refresh" => cmd[s].waits = cmd[s].refreshes)
    /\ [][\A s \in Slots :
            Stepped(s) =>
                /\ cmd[s].pc = "sleep" =>
                       cmd'[s] = [cmd[s] EXCEPT !.pc = "refresh", !.waits = @ + 1]
                /\ cmd[s].pc = "refresh" =>
                       cmd'[s] = [cmd[s] EXCEPT !.pc = "check", !.refreshes = @ + 1]
                /\ cmd[s].pc = "check" =>
                       /\ cmd'[s].pc \in {"sleep", "done", "error"}
                       /\ cmd'[s].waits = cmd[s].waits
                       /\ cmd'[s].refreshes = cmd[s].refreshes
                       /\ cmd'[s].calls = cmd[s].calls]_vars

C11_Witness ==
    \E s \in Slots :
        /\ cmd[s].kind = "off"
        /\ cmd[s].pc = "refresh"
        /\ cmd[s].waits = 2
        /\ cmd[s].refreshes = 1
        /\ cmd[s].resp = "returned"

\* C11 as claimed: the refresh requests are always as many as the waits.
C11_RefreshesAlwaysEqualWaits ==
    \A s \in Slots : cmd[s].refreshes = cmd[s].waits


\* C12: an AttributeError raised while device_info derives its record never
\* leaves the property; when it is raised in the model/name derivation the
\* property returns an empty record, and when it is raised in the firmware
\* derivation the property returns the record built before it: identifiers,
\* name, manufacturer and model, with the device firmware if that was set.
C12_AttributeErrorSwallowed ==
    lastRead.toggle # 0 =>
        LET result == lastRead.value
            id == entities[lastRead.toggle].id
            entity == data[id]
        IN /\ result.exc # "AttributeError"
           /\ result.caught =>
                 /\ result.exc = "none"
                 /\ entity.name = NoName => result.device = NoDevice
                 /\ entity.name # NoName =>
                       /\ {"identifiers", "name", "manufacturer", "model"}
                              \subseteq DOMAIN result.device
                       /\ DOMAIN result.device
                              \subseteq {"identifiers", "name", "manufacturer",
                                         "model", "sw_version"}
                       /\ result.device["identifiers"] = <<DOMAIN_CONST, id>>
                       /\ result.device["name"] = StrCapitalize(entity.name)
                       /\ result.device["manufacturer"] = SURE_MANUFACTURER
                       /\ result.device["model"] = DeviceModel(entity)
                       /\ "sw_version" \in DOMAIN result.device =>
                              result.device["sw_version"] = Str12.val

C12_Witness ==
    /\ lastRead.toggle # 0
    /\ lastRead.value.caught
    /\ lastRead.value.exc = "none"
    /\ DOMAIN lastRead.value.device =
           {"identifiers", "name", "manufacturer", "model", "sw_version"}
    /\ lastRead.value.device["name"] = <<"T","o","m">>
    /\ lastRead.value.device["model"] = <<"P","e","t"," ","(","7",")">>
    /\ lastRead.value.device["sw_version"] = <<"1",".","2">>

\* C12 as claimed: whenever an AttributeError is swallowed the record returned
\* is empty.
C12_SwallowedMeansEmpty ==
    (lastRead.toggle # 0 /\ lastRead.value.caught) =>
        (lastRead.value.exc = "none" /\ lastRead.value.device = NoDevice)


\* C13: the cache changes only in a refresh by the coordinator, which takes
\* what it stores from the vendor side and leaves the vendor side alone; a
\* command is in such a step only when it requests a refresh after its remote
\* request has returned. Evaluating is_on in the confirm loop changes neither
\* the cache nor the vendor side and sends no request and no refresh request.
C13_CacheOnlyByRefresh ==
    [][/\ data' # data =>
             /\ data' \in RefreshOutcomes(data, cloud)
             /\ cloud' = cloud
             /\ \A s \in Slots :
                  Stepped(s) =>
                      /\ cmd[s].pc = "refresh"
                      /\ cmd[s].resp = "returned"
                      /\ cmd'[s].refreshes = cmd[s].refreshes + 1
       /\ \A s \in Slots :
            (Stepped(s) /\ cmd[s].pc = "check") =>
                /\ data' = data
                /\ cloud' = cloud
                /\ cmd'[s].calls = cmd[s].calls
                /\ cmd'[s].waits = cmd[s].waits
                /\ cmd'[s].refreshes = cmd[s].refreshes]_vars

C13_Witness ==
    \E s \in Slots :
        /\ cmd[s].kind = "on" /\ cmd[s].pc = "check"
        /\ cmd[s].refreshes = 1
        /\ CmdToggle(s).id = 1
        /\ data # Account
        /\ 3 \in DOMAIN data /\ Truthy(data[3])
        /\ TagOf(1) \in data[3].tags


\* the is_on value a command is to bring about
Target(kind) == IF kind = "on" THEN "on" ELSE "off"

\* two commands on two different pairs are in flight
Concurrent(s, r) ==
    /\ s # r
    /\ cmd[s].pc # "idle" /\ cmd[r].pc # "idle"
    /\ cmd[s].toggle # cmd[r].toggle

\* C14 as claimed: while commands on two different pairs run concurrently,
\* each has sent at most its own one request, a command whose request has
\* returned is polling or has completed, and one that has completed left its
\* loop on is_on reporting its target.
C14_ConcurrentPairsComplete ==
    \A s, r \in Slots :
        Concurrent(s, r) =>
            /\ Len(cmd[s].calls) <= 1
            /\ cmd[s].resp = "returned" =>
                   \/ cmd[s].pc \in {"check", "sleep", "refresh"}
                   \/ cmd[s].pc = "done" /\ cmd[s].q = Target(cmd[s].kind)


\* the request of the command in slot s has returned and the command is in its
\* confirm loop, not held at the bound on polls
Confirming(s) ==
    /\ cmd[s].resp = "returned"
    /\ \/ cmd[s].pc \in {"check", "refresh"}
       \/ cmd[s].pc = "sleep" /\ cmd[s].waits < MaxPolls

\* the cache holds both snapshots of the pair of the command in slot s and
\* is_on reports the command's target
Reflected(s) ==
    cmd[s].toggle # 0 => IsOn(data, CmdToggle(s)) = Target(cmd[s].kind)

Confirmed(s) == cmd[s].pc = "done" /\ cmd[s].q = Target(cmd[s].kind)

\* C15: under fair scheduling a turn_on or turn_off whose request has returned
\* and which is in its confirm loop eventually completes with is_on reporting
\* its target (on for turn_on, off for turn_off), if from then on the cache
\* holds both snapshots and reflects the new membership.
C15_ConfirmLoopCompletes ==
    \A s \in Slots : [](Confirming(s) /\ []Reflected(s) => <>Confirmed(s))

C15_Witness ==
    \E s \in Slots :
        /\ cmd[s].kind = "off" /\ cmd[s].pc = "done" /\ cmd[s].q = "off"
        /\ cmd[s].waits = 1 /\ cmd[s].refreshes = 1
        /\ CmdToggle(s).id = 12
        /\ ~Attached(s)
        /\ data = cloud


\* a turn_on and a turn_off of the same pair are in flight in slots s and r,
\* both requests have been answered, and the write of s is the one the vendor
\* applied last
AppliedLast(s, r) ==
    /\ s # r
    /\ cmd[s].toggle # 0 /\ cmd[s].toggle = cmd[r].toggle
    /\ {cmd[s].kind, cmd[r].kind} = {"on", "off"}
    /\ cmd[s].resp = "returned" /\ cmd[r].resp = "returned"
    /\ lastRead.toggle # 0 /\ lastRead.slot = s

\* C16 as claimed: when a turn_on and a turn_off of the same pair run
\* concurrently, the command whose write the vendor applied last goes on
\* polling until it completes with is_on reporting its target: it never ends
\* with an error and never completes on another value.
C16_LastWriteConfirmed ==
    \A s, r \in Slots :
        AppliedLast(s, r) =>
            \/ cmd[s].pc \in {"check", "sleep", "refresh"}
            \/ Confirmed(s)


\* slot s takes up a command in this step
Invoked(s) == cmd[s].pc = "idle" /\ cmd'[s].pc # "idle"

\* the command in slot s failed before its request
FailedAtStart(s) == cmd[s].pc = "error" /\ cmd[s].resp = "none"

\* C17: a turn_on or turn_off invoked while the cache has no snapshot of the
\* pet (its key is absent or maps to None) fails in that step, with no request
\* sent, no wait, no refresh request and the vendor side and the cache as they
\* were; and a command that failed so has sent nothing and does nothing more.
C17_MissingPetFailsFirst ==
    /\ [](\A s \in Slots :
            FailedAtStart(s) =>
                /\ cmd[s].err \in {"KeyError", "AttributeError"}
                /\ cmd[s].calls = <<>>
                /\ cmd[s].waits = 0 /\ cmd[s].refreshes = 0)
    /\ [][\A s \in Slots :
            /\ (Invoked(s) /\ ~HasSnapshot(data, entities[cmd'[s].toggle].id)) =>
                   /\ cmd'[s].kind \in {"on", "off"}
                   /\ FailedAtStart(s)'
                   /\ cloud' = cloud
                   /\ data' = data
            /\ (FailedAtStart(s) /\ Stepped(s)) => cmd'[s] = Idle]_vars

C17_Witness ==
    \E s \in Slots :
        /\ cmd[s].kind = "off"
        /\ FailedAtStart(s)
        /\ cmd[s].err = "AttributeError"
        /\ cmd[s].calls = <<>>
        /\ ~HasSnapshot(data, CmdToggle(s).id)


\* the decimal numerals of the ids in use
Numeral(n) ==
    IF n = 1 THEN <<"1">>
    ELSE IF n = 3 THEN <<"3">>
    ELSE IF n = 11 THEN <<"1","1">>
    ELSE IF n = 12 THEN <<"1","2">>
    ELSE <<"2","3">>

\* C18: the unique id of a toggle is "<household id>-<pet id>-<feeder id>" and
\* "-feeder-access"; two toggles of one setup with the same unique id are for
\* the same (pet, feeder) pair, and a pair has one toggle at most, so the
\* unique ids of the toggles are pairwise distinct.
C18_UniqueIdsDistinct ==
    setupDone =>
        /\ \A i \in 1..Len(entities) :
             entities[i].unique_id =
                 Numeral(data[entities[i].id].household_id) \o <<"-">>
                 \o Numeral(entities[i].id) \o <<"-">>
                 \o Numeral(entities[i].feeder_id)
                 \o <<"-","f","e","e","d","e","r","-","a","c","c","e","s","s">>
        /\ \A i, j \in 1..Len(entities) :
             /\ entities[i].unique_id = entities[j].unique_id =>
                    /\ entities[i].id = entities[j].id
                    /\ entities[i].feeder_id = entities[j].feeder_id
             /\ (entities[i].id = entities[j].id /\
                 entities[i].feeder_id = entities[j].feeder_id) => i = j
             /\ i # j => entities[i].unique_id # entities[j].unique_id

C18_Witness ==
    /\ setupDone
    /\ Len(entities) = 4
    /\ \E i, j \in 1..Len(entities) :
         /\ entities[i].unique_id =
              <<"1","1","-","1","2","-","2","3",
                "-","f","e","e","d","e","r","-","a","c","c","e","s","s">>
         /\ entities[j].unique_id =
              <<"1","1","-","1","2","-","3",
                "-","f","e","e","d","e","r","-","a","c","c","e","s","s">>

====
